---- MODULE Spec2Model ----
(***************************************************************************)
(* Model of src/annotacy/fuzzy.py: FuzzySearch (windowed fuzzy search with *)
(* boundary refinement and ignore-rule trimming) and FuzzyRuler (entity    *)
(* registration with overlap adjustment).                                  *)
(*                                                                         *)
(* A Doc is a sequence of tokens; a token is its text.  Code indices are   *)
(* 0-based, TLA+ sequences 1-based: token i of the code is d[i + 1].       *)
(* The text of a span is modelled as its sequence of token texts, and the  *)
(* similarity functions of the fuzzywuzzy table are computed on those      *)
(* sequences (token granularity instead of character granularity).         *)
(***************************************************************************)
EXTENDS Integers, Sequences, FiniteSets, TLC

VARIABLES
    doc,          \* the document handed to the call
    query,        \* the tokens of nlp.make_doc(query)
    opts,         \* keyword arguments of best_match / multi_match
    rules,        \* self.ignores, self.left_ignores, self.right_ignores
    pc,           \* position of the caller
    scanned,      \* the window starts m scored by _scan_doc, in scan order
    match_values, \* the OrderedDict built by _scan_doc
    refined,      \* locals of _adjust_left_right_positions at line 236
    result,       \* what the call returned or raised
    terms,        \* FuzzyRuler.search_terms
    overlap_adjust,
    pending,      \* FuzzyRuler: matches still to be registered
    ents,         \* doc.ents
    log           \* FuzzyRuler: what happened to each raw span

vars == <<doc, query, opts, rules, pc, scanned, match_values, refined, result,
          terms, overlap_adjust, pending, ents, log>>

(***************************************************************************)
(* Bounds.                                                                 *)
(***************************************************************************)
MaxDocLen == 3
MaxQueryLen == 2
MaxStep == 2
MaxResults == 2

Min(a, b) == IF a < b THEN a ELSE b
Max(a, b) == IF a > b THEN a ELSE b

\* All sequences over S with length in lo..hi.
SeqsOf(S, lo, hi) == UNION {[1..n -> S] : n \in lo..hi}

\* F(v), with v evaluated once and F applied to its value: a local variable.
Let(v, F(_)) == CHOOSE r \in {F(w) : w \in {v}} : TRUE

(***************************************************************************)
(* Tokens: lexical attributes read by the ignore rules, and str.lower().   *)
(***************************************************************************)
is_space(t) == t = " "
is_punct(t) == t = ","
is_stop(t) == t \in {"the", "The"}

LowerTok(t) == CASE t = "Cat" -> "cat" [] t = "Dog" -> "dog" [] t = "The" -> "the" [] OTHER -> t
Lower(s) == Let(s, LAMBDA v : [i \in 1..Len(v) |-> LowerTok(v[i])] \o <<>>)

(***************************************************************************)
(* Doc.__getitem__: a slice follows Python's rules (negative bounds count  *)
(* from the end, everything is clamped); an integer index wraps once and   *)
(* raises IndexError outside the document.                                 *)
(***************************************************************************)
SliceStart(n, i) == Min(n, Max(0, IF i < 0 THEN i + n ELSE i))
SliceStop(n, i, j) == Min(n, Max(SliceStart(n, i), IF j < 0 THEN j + n ELSE j))
Slice(d, i, j) == SubSeq(d, SliceStart(Len(d), i) + 1, SliceStop(Len(d), i, j))

InDoc(d, i) == -Len(d) <= i /\ i < Len(d)
TokAt(d, i) == IF i < 0 THEN d[i + Len(d) + 1] ELSE d[i + 1]

(***************************************************************************)
(* Similarity functions.  A text is the sequence of its tokens.  ratio is  *)
(* fuzz.ratio with a token as the unit: 2*M/T, M the length of the longest *)
(* common subsequence and T the total length, rounded to an integer; equal *)
(* texts score 100 and an empty text scores 0 against a non-empty one.     *)
(***************************************************************************)
\* Cell j of the LCS row of token x against b, from the previous row and the
\* cells of this row already computed.
LcsCell(x, b, prev, j, row) ==
    IF x = b[j]
    THEN (IF j = 1 THEN 0 ELSE prev[j - 1]) + 1
    ELSE Max(prev[j], IF j = 1 THEN 0 ELSE row[j - 1])

RECURSIVE LcsRow(_, _, _, _, _)
LcsRow(x, b, prev, j, row) ==
    IF j > Len(b) THEN row
    ELSE Let(Append(row, LcsCell(x, b, prev, j, row)),
             LAMBDA next : LcsRow(x, b, prev, j + 1, next))

RECURSIVE LcsRows(_, _, _, _)
LcsRows(a, b, i, prev) ==
    IF i > Len(a) THEN prev
    ELSE Let(LcsRow(a[i], b, prev, 1, <<>>),
             LAMBDA row : LcsRows(a, b, i + 1, row))

Lcs(a, b) ==
    IF Len(a) = 0 \/ Len(b) = 0 THEN 0
    ELSE LcsRows(a, b, 1, [j \in 1..Len(b) |-> 0])[Len(b)]

ratio(a, b) ==
    IF a = b THEN 100
    ELSE IF Len(a) = 0 \/ Len(b) = 0 THEN 0
    ELSE (400 * Lcs(a, b) + Len(a) + Len(b)) \div (2 * (Len(a) + Len(b)))

\* The entry of fuzzy_algs the calls below select, applied to two texts.
get_fuzzy_alg(name, a, b) == CASE name = "simple" -> ratio(a, b)

match(a, b, fuzzy_alg, case_sensitive) ==
    Let(IF case_sensitive THEN <<a, b>> ELSE <<Lower(a), Lower(b)>>,
        LAMBDA ab : get_fuzzy_alg(fuzzy_alg, ab[1], ab[2]))

_calc_flex(flex, q) == IF 2 * flex >= Len(q) THEN 1 ELSE flex

(***************************************************************************)
(* _scan_doc: the loop; st carries i, m, the table and the scored starts.  *)
(***************************************************************************)
\* One pass of the loop body: the window at st.m is scored and recorded.
ScanStep(d, q, o, st, s) ==
    [i |-> st.i + 1,
     m |-> st.m + o.step,
     tab |-> IF s >= o.min_ratio THEN st.tab @@ (st.i :> s) ELSE st.tab,
     ms |-> Append(st.ms, st.m)]

RECURSIVE ScanLoop(_, _, _, _)
ScanLoop(d, q, o, st) ==
    IF st.m + Len(q) - o.step <= Len(d) - 1
    THEN Let(match(q, Slice(d, st.m, st.m + Len(q)), o.fuzzy_alg, o.case_sensitive),
             LAMBDA s : Let(ScanStep(d, q, o, st, s),
                            LAMBDA next : ScanLoop(d, q, o, next)))
    ELSE st

EmptyTable == [i \in {} |-> 0]

_scan_doc(d, q, o) ==
    Let([i |-> 0, m |-> 0, tab |-> EmptyTable, ms |-> <<>>],
        LAMBDA st : ScanLoop(d, q, o, st))

(***************************************************************************)
(* _index_max and _indice_maxes.  max() keeps the first of equal items in  *)
(* the table's insertion order; nlargest(n, it, key) is                    *)
(* sorted(it, key=key, reverse=True)[:n], which is stable.  The table is   *)
(* filled in increasing index order, so insertion order is index order.    *)
(***************************************************************************)
Keys(tab) == DOMAIN tab

_index_max(tab) ==
    CHOOSE k \in Keys(tab) :
        \A j \in Keys(tab) : tab[j] < tab[k] \/ (tab[j] = tab[k] /\ k <= j)

\* The key ranked r (1-based) by (score descending, index ascending).
Ranked(tab, r) ==
    CHOOSE k \in Keys(tab) :
        Cardinality({j \in Keys(tab) :
            tab[j] > tab[k] \/ (tab[j] = tab[k] /\ j < k)}) = r - 1

_indice_maxes(tab, max_results) ==
    [r \in 1..Min(Max(max_results, 0), Cardinality(Keys(tab))) |-> Ranked(tab, r)] \o <<>>

(***************************************************************************)
(* _enforce_left, _enforce_right, _enforce_rules.  A value is a record     *)
(* [ok, v]: ok = FALSE stands for the IndexError raised by doc[i].         *)
(***************************************************************************)
ignore_rules == {"space", "punct", "stop"}

Rule(key, t) ==
    CASE key = "space" -> is_space(t)
      [] key = "punct" -> is_punct(t)
      [] key = "stop" -> is_stop(t)

\* The functions collected from two tuples of keys; unknown keys are skipped.
IgnoreFuncs(global, edge) == (global \cup edge) \cap ignore_rules

AnyRule(funcs, t) == \E key \in funcs : Rule(key, t)

Ok(v) == [ok |-> TRUE, v |-> v]
IndexError == [ok |-> FALSE, v |-> 0]

\* Mutant of LeftLoop: the guard of line 268 that stops one short of bp_r is missing.
RECURSIVE LeftLoopNoStop(_, _, _, _)
LeftLoopNoStop(d, funcs, bp_l, bp_r) ==
    IF funcs = {} THEN Ok(bp_l)
    ELSE IF ~InDoc(d, bp_l) THEN IndexError
    ELSE IF AnyRule(funcs, TokAt(d, bp_l))
         THEN LeftLoopNoStop(d, funcs, bp_l + 1, bp_r)
         ELSE Ok(bp_l)

RECURSIVE LeftLoop(_, _, _, _)
LeftLoop(d, funcs, bp_l, bp_r) ==
    IF funcs = {} THEN Ok(bp_l)
    ELSE IF ~InDoc(d, bp_l) THEN IndexError
    ELSE IF AnyRule(funcs, TokAt(d, bp_l))
         THEN IF bp_l = bp_r - 1 THEN Ok(bp_l)
              ELSE LeftLoop(d, funcs, bp_l + 1, bp_r)
         ELSE Ok(bp_l)

_enforce_left(d, r, bp_l, bp_r) ==
    IF r.ignores # {} \/ r.left_ignores # {}
    THEN LeftLoop(d, IgnoreFuncs(r.ignores, r.left_ignores), bp_l, bp_r)
    ELSE Ok(bp_l)

RECURSIVE RightLoop(_, _, _, _)
RightLoop(d, funcs, bp_l, bp_r) ==
    IF funcs = {} THEN Ok(bp_r)
    ELSE IF ~InDoc(d, bp_r) THEN IndexError
    ELSE IF AnyRule(funcs, TokAt(d, bp_r))
         THEN IF bp_r = bp_l THEN Ok(bp_r)
              ELSE RightLoop(d, funcs, bp_l, bp_r - 1)
         ELSE Ok(bp_r)

_enforce_right(d, r, bp_l, bp_r) ==
    IF r.ignores # {} \/ r.right_ignores # {}
    THEN Let(RightLoop(d, IgnoreFuncs(r.ignores, r.right_ignores), bp_l, bp_r - 1),
             LAMBDA e : IF e.ok THEN Ok(e.v + 1) ELSE IndexError)
    ELSE Ok(bp_r)

\* [ok, l, r]
EnforceRight(d, r, l, bp_r) ==
    Let(_enforce_right(d, r, l, bp_r),
        LAMBDA rgt : IF rgt.ok THEN [ok |-> TRUE, l |-> l, r |-> rgt.v]
                     ELSE [ok |-> FALSE, l |-> 0, r |-> 0])

_enforce_rules(d, r, bp_l, bp_r) ==
    Let(_enforce_left(d, r, bp_l, bp_r),
        LAMBDA lft : IF ~lft.ok THEN [ok |-> FALSE, l |-> 0, r |-> 0]
                     ELSE IF bp_r > lft.v THEN EnforceRight(d, r, lft.v, bp_r)
                     ELSE [ok |-> TRUE, l |-> lft.v, r |-> bp_r])

(***************************************************************************)
(* _adjust_left_right_positions.  Score(d, q, o, l, r) is the call         *)
(* self.match(query.text, doc[l:r].text, fuzzy_alg, case_sensitive).       *)
(***************************************************************************)
Score(d, q, o, l, r) == match(q, Slice(d, l, r), o.fuzzy_alg, o.case_sensitive)

\* Mutant of Improves: a tie replaces the running best.
ImprovesOrTies(cand, best) == cand >= best

\* The strict comparison that lets a candidate replace the running best.
Improves(cand, best) == cand > best

\* Lines 209-217 and 221-229: a candidate boundary at p scoring s replaces the
\* running best of its edge; st = [bmv_l, bp_l, bmv_r, bp_r].
TryLeft(st, s, p) ==
    IF Improves(s, st.bmv_l) THEN [st EXCEPT !.bmv_l = s, !.bp_l = p] ELSE st

TryRight(st, s, p) ==
    IF Improves(s, st.bmv_r) THEN [st EXCEPT !.bmv_r = s, !.bp_r = p] ELSE st

\* One pass of the loop body for radius f: ll, lr, rl, rr in this order.
FlexStep(d, q, o, p_l, p_r, f, st) ==
    Let(<<Score(d, q, o, p_l - f, p_r), Score(d, q, o, p_l + f, p_r),
          Score(d, q, o, p_l, p_r - f), Score(d, q, o, p_l, p_r + f)>>,
        LAMBDA c :
            Let(TryLeft(st, c[1], p_l - f), LAMBDA s1 :
            Let(TryLeft(s1, c[2], p_l + f), LAMBDA s2 :
            Let(TryRight(s2, c[3], p_r - f), LAMBDA s3 :
                TryRight(s3, c[4], p_r + f)))))

RECURSIVE FlexLoop(_, _, _, _, _, _, _, _)
FlexLoop(d, q, o, p_l, p_r, f, flex, st) ==
    IF f >= flex THEN st
    ELSE Let(FlexStep(d, q, o, p_l, p_r, f, st),
             LAMBDA next : FlexLoop(d, q, o, p_l, p_r, f + 1, flex, next))

\* The locals at line 236, before the ignore rules are enforced.
Perturb(d, q, o, tab, pos, flex) ==
    Let([bmv_l |-> tab[pos \div o.step], bp_l |-> pos,
         bmv_r |-> tab[pos \div o.step], bp_r |-> pos + Len(q)],
        LAMBDA st : FlexLoop(d, q, o, pos, pos + Len(q), 0, flex, st))

\* Lines 236-241: [ok, start, end, score] from the locals st.
Enforced(d, q, r, o, st) ==
    Let(_enforce_rules(d, r, st.bp_l, st.bp_r),
        LAMBDA e : IF e.ok
                   THEN [ok |-> TRUE, start |-> e.l, end |-> e.r,
                         score |-> Score(d, q, o, e.l, e.r)]
                   ELSE [ok |-> FALSE, start |-> 0, end |-> 0, score |-> 0])

_adjust_left_right_positions(d, q, r, o, tab, pos, flex) ==
    Let(Perturb(d, q, o, tab, pos, flex), LAMBDA st : Enforced(d, q, r, o, st))

(***************************************************************************)
(* _filter_overlapping_matches, the stable sort of line 138, best_match    *)
(* and multi_match.  A match is [start, end, score]; the span doc[start:   *)
(* end] of the returned tuple is determined by start and end.              *)
(***************************************************************************)
\* Mutant of Overlaps: only the first token of the candidate is looked up.
OverlapsStartOnly(m, n) == m.start < m.end /\ m.start \in n.start..(n.end - 1)

Overlaps(m, n) == (m.start..(m.end - 1)) \cap (n.start..(n.end - 1)) # {}

\* A candidate is kept when it shares no token with the matches kept so far.
Keeps(m, kept) == \A k \in 1..Len(kept) : ~Overlaps(m, kept[k])

RECURSIVE FilterLoop(_, _, _)
FilterLoop(ms, k, kept) ==
    IF k > Len(ms) THEN kept
    ELSE Let(IF Keeps(ms[k], kept) THEN Append(kept, ms[k]) ELSE kept,
             LAMBDA next : FilterLoop(ms, k + 1, next))

_filter_overlapping_matches(ms) == Let(ms, LAMBDA v : FilterLoop(v, 1, <<>>))

\* sorted(matches, key=itemgetter(3), reverse=True): stable, score descending.
InsertByScore(out, m) ==
    Let(Cardinality({j \in 1..Len(out) : out[j].score >= m.score}),
        LAMBDA n : SubSeq(out, 1, n) \o <<m>> \o SubSeq(out, n + 1, Len(out)))

RECURSIVE SortLoop(_, _, _)
SortLoop(ms, k, out) ==
    IF k > Len(ms) THEN out
    ELSE Let(InsertByScore(out, ms[k]), LAMBDA next : SortLoop(ms, k + 1, next))

SortByScore(ms) == Let(ms, LAMBDA v : SortLoop(v, 1, <<>>))

SelectSeq2(ms, min_ratio) == SelectSeq(ms, LAMBDA m : m.score >= min_ratio)

Returned(kind, ms) == [kind |-> kind, matches |-> ms, err |-> "none"]
Raised(e) == [kind |-> "error", matches |-> <<>>, err |-> e]

AsMatch(a) == [start |-> a.start, end |-> a.end, score |-> a.score]

\* Lines 82-96, from the table of the scan.
BestOf(d, q, r, o, tab) ==
    IF Keys(tab) = {} THEN Raised("ValueError")
    ELSE Let(_adjust_left_right_positions(d, q, r, o, tab, _index_max(tab) * o.step,
                                          _calc_flex(o.flex, q)),
             LAMBDA a : IF ~a.ok THEN Raised("IndexError")
                        ELSE IF a.score >= o.min_ratio THEN Returned("match", <<AsMatch(a)>>)
                        ELSE Returned("None", <<>>))

best_match(d, q, r, o) == Let(_scan_doc(d, q, o).tab, LAMBDA tab : BestOf(d, q, r, o, tab))

\* Lines 116-132, from the table of the scan: the refined windows of the selected
\* positions, in selection order.
RefinedOf(d, q, r, o, tab) ==
    Let(_indice_maxes(tab, o.max_results),
        LAMBDA idx : [k \in 1..Len(idx) |->
                         _adjust_left_right_positions(d, q, r, o, tab, idx[k] * o.step,
                                                      _calc_flex(o.flex, q))] \o <<>>)

RefinedPositions(d, q, r, o) ==
    Let(_scan_doc(d, q, o).tab, LAMBDA tab : RefinedOf(d, q, r, o, tab))

\* Lines 133-138: the candidates that reach min_ratio, in score order.
Candidates(adj, min_ratio) ==
    SortByScore(SelectSeq2([k \in 1..Len(adj) |-> AsMatch(adj[k])] \o <<>>, min_ratio))

MultiOf(adj, min_ratio) ==
    IF \E k \in 1..Len(adj) : ~adj[k].ok THEN Raised("IndexError")
    ELSE Returned("list", _filter_overlapping_matches(Candidates(adj, min_ratio)))

multi_match(d, q, r, o) ==
    Let(RefinedPositions(d, q, r, o), LAMBDA adj : MultiOf(adj, o.min_ratio))

(***************************************************************************)
(* Specification Spec: one call of best_match or multi_match on a          *)
(* FuzzySearch instance.                                                   *)
(***************************************************************************)
Vocab == {"cat", "the"}
QueryVocab == Vocab \cup {"Cat"}

Docs == SeqsOf(Vocab, 1, MaxDocLen)
Queries == SeqsOf(QueryVocab, 0, MaxQueryLen)

NoRules == [ignores |-> {}, left_ignores |-> {}, right_ignores |-> {}]
DefaultRules == [ignores |-> {"space", "punct", "stop"}, left_ignores |-> {}, right_ignores |-> {}]

RuleSets == {NoRules, DefaultRules}

MinRatios == {0, 70, 101}

Options ==
    [fuzzy_alg : {"simple"},
     min_ratio : MinRatios,
     case_sensitive : BOOLEAN,
     step : 1..MaxStep,
     flex : {1},
     max_results : 1..MaxResults]

NoRefined == [pos |-> 0, flex |-> 0, bp_l |-> 0, bp_r |-> 0, bmv_l |-> 0, bmv_r |-> 0]
NoResult == [kind |-> "pending", matches |-> <<>>, err |-> "none"]

RulerIdle ==
    /\ terms = <<>>
    /\ overlap_adjust = 0
    /\ pending = <<>>
    /\ ents = {}
    /\ log = <<>>

\* The state before a call on a FuzzySearch instance.
SearchInit(Ds, Qs, Os, Rs) ==
    /\ doc \in Ds
    /\ query \in Qs
    /\ opts \in Os
    /\ rules \in Rs
    /\ pc = "idle"
    /\ scanned = <<>>
    /\ match_values = EmptyTable
    /\ refined = NoRefined
    /\ result = NoResult
    /\ RulerIdle

Init == SearchInit(Docs, Queries, Options, RuleSets)

BestMatch ==
    /\ pc = "idle"
    /\ pc' = "best_match"
    /\ \E s \in {_scan_doc(doc, query, opts)} :
           /\ scanned' = s.ms
           /\ match_values' = s.tab
    /\ result' = best_match(doc, query, rules, opts)
    /\ UNCHANGED <<doc, query, opts, rules, refined, terms, overlap_adjust, pending, ents, log>>

MultiMatch ==
    /\ pc = "idle"
    /\ pc' = "multi_match"
    /\ \E s \in {_scan_doc(doc, query, opts)} :
           /\ scanned' = s.ms
           /\ match_values' = s.tab
    /\ result' = multi_match(doc, query, rules, opts)
    /\ UNCHANGED <<doc, query, opts, rules, refined, terms, overlap_adjust, pending, ents, log>>

Next == BestMatch \/ MultiMatch

Spec == Init /\ [][Next]_vars

\* The same calls with a query of at least one token.
InitWords == SearchInit(Docs, SeqsOf(QueryVocab, 1, MaxQueryLen), Options, RuleSets)

SpecWords == InitWords /\ [][Next]_vars

(***************************************************************************)
(* Specification SpecVerbatim: best_match for a query that occurs verbatim *)
(* in the document, under several configurations of the ignore rules.  The *)
(* "simple" ratio scores 100 exactly when the two texts are equal.         *)
(***************************************************************************)
OccursAt(d, q, m) == m + Len(q) <= Len(d) /\ SubSeq(d, m + 1, m + Len(q)) = q

OccursVerbatim(d, q) == \E m \in 0..Len(d) : OccursAt(d, q, m)

LeftRules == [ignores |-> {}, left_ignores |-> {"stop"}, right_ignores |-> {}]
RightRules == [ignores |-> {}, left_ignores |-> {}, right_ignores |-> {"stop"}]

VerbatimOptions ==
    [fuzzy_alg : {"simple"},
     min_ratio : {0, 70, 100},
     case_sensitive : BOOLEAN,
     step : {1},
     flex : {1},
     max_results : {1}]

InitVerbatim ==
    /\ SearchInit(Docs, SeqsOf(Vocab, 1, MaxQueryLen), VerbatimOptions,
                  {NoRules, DefaultRules, LeftRules, RightRules})
    /\ OccursVerbatim(doc, query)

NextVerbatim == BestMatch

SpecVerbatim == InitVerbatim /\ [][NextVerbatim]_vars

(***************************************************************************)
(* Specification SpecRefine: _scan_doc, then _adjust_left_right_positions  *)
(* for the position best_match selects, on queries long enough for a flex  *)
(* of 2 to survive _calc_flex.  refined holds the locals at line 236.      *)
(***************************************************************************)
MaxRefineDocLen == 6
MaxRefineQueryLen == 5
MaxFlex == 2

\* The shortest query whose flex of 2 is not reset: 2 < len(query) / 2.
MinRefineLen == 2 * 2 + 1

RefineVocab == {"cat", "dog"}

RefineOptions ==
    [fuzzy_alg : {"simple"},
     min_ratio : {0},
     case_sensitive : {FALSE},
     step : {1},
     flex : 0..MaxFlex,
     max_results : {1}]

\* Renaming the two tokens changes no score, so the query starts with "cat".
InitRefine ==
    /\ SearchInit(SeqsOf(RefineVocab, MaxRefineDocLen, MaxRefineDocLen),
                  SeqsOf(RefineVocab, MinRefineLen, MaxRefineQueryLen),
                  RefineOptions, {NoRules})
    /\ query[1] = "cat"

ScanDoc ==
    /\ pc = "idle"
    /\ pc' = "scanned"
    /\ \E s \in {_scan_doc(doc, query, opts)} :
           /\ scanned' = s.ms
           /\ match_values' = s.tab
    /\ UNCHANGED <<doc, query, opts, rules, refined, result,
                   terms, overlap_adjust, pending, ents, log>>

AdjustLeftRightPositions ==
    /\ pc = "scanned"
    /\ Keys(match_values) # {}
    /\ \E pos \in {_index_max(match_values) * opts.step},
          flex \in {_calc_flex(opts.flex, query)} :
           \E st \in {Perturb(doc, query, opts, match_values, pos, flex)} :
               \E a \in {Enforced(doc, query, rules, opts, st)} :
                   /\ refined' = [pos |-> pos, flex |-> flex,
                                  bp_l |-> st.bp_l, bp_r |-> st.bp_r,
                                  bmv_l |-> st.bmv_l, bmv_r |-> st.bmv_r]
                   /\ result' = IF a.ok THEN Returned("tuple", <<AsMatch(a)>>)
                                ELSE Raised("IndexError")
    /\ pc' = "adjusted"
    /\ UNCHANGED <<doc, query, opts, rules, scanned, match_values,
                   terms, overlap_adjust, pending, ents, log>>

NextRefine == ScanDoc \/ AdjustLeftRightPositions

SpecRefine == InitRefine /\ [][NextRefine]_vars

(***************************************************************************)
(* Specification SpecTrim: one call of _enforce_rules on a window          *)
(* [bp_l, bp_r) of a document with stop words, punctuation and spaces.     *)
(***************************************************************************)
MaxTrimLen == 3

TrimVocab == {"cat", "the", ",", " "}

TrimRuleSets ==
    [ignores : {{}, {"stop"}, {"space", "punct", "stop"}},
     left_ignores : {{}, {"punct"}, {"pos"}},
     right_ignores : {{}, {"space", "stop"}}]

DefaultOptions ==
    [fuzzy_alg |-> "simple", min_ratio |-> 70, case_sensitive |-> FALSE,
     step |-> 1, flex |-> 1, max_results |-> 3]

InitTrim == SearchInit(SeqsOf(TrimVocab, 1, MaxTrimLen), {<<>>}, {DefaultOptions}, TrimRuleSets)

EnforceRules ==
    /\ pc = "idle"
    /\ \E l \in 0..Len(doc), r \in 0..(Len(doc) + 1) :
           LET e == _enforce_rules(doc, rules, l, r)
           IN  /\ refined' = [NoRefined EXCEPT !.bp_l = l, !.bp_r = r]
               /\ result' = IF e.ok
                            THEN Returned("tuple", <<[start |-> e.l, end |-> e.r, score |-> 0]>>)
                            ELSE Raised("IndexError")
    /\ pc' = "enforced"
    /\ UNCHANGED <<doc, query, opts, rules, scanned, match_values,
                   terms, overlap_adjust, pending, ents, log>>

NextTrim == EnforceRules

SpecTrim == InitTrim /\ [][NextTrim]_vars

(***************************************************************************)
(* Specification SpecRuler: FuzzyRuler.__call__ on a document without      *)
(* entities.  The label of a search term is its index in search_terms.  An *)
(* entity is [start, end, label]; doc.ents refuses (ValueError) a span     *)
(* sharing a token with an entity already set.  The keyword arguments keep *)
(* step = 1 and the terms have at least one token, so every span handed to *)
(* Span() lies in the document.                                            *)
(***************************************************************************)
MaxRulerDocLen == 3
MaxRulerTermLen == 3
NumTerms == 2
MaxAdjust == 1

RulerVocab == {"cat", "dog"}

RulerKwargs == [DefaultOptions EXCEPT !.min_ratio = 50]

InitRuler ==
    /\ doc \in SeqsOf(RulerVocab, 1, MaxRulerDocLen)
    /\ terms \in [1..NumTerms -> SeqsOf(RulerVocab, 1, MaxRulerTermLen)]
    /\ overlap_adjust \in 0..MaxAdjust
    /\ opts = RulerKwargs
    /\ rules = DefaultRules
    /\ query = <<>>
    /\ pc = "idle"
    /\ scanned = <<>>
    /\ match_values = EmptyTable
    /\ refined = NoRefined
    /\ result = NoResult
    /\ pending = <<>>
    /\ ents = {}
    /\ log = <<>>

Labelled(ms, label) ==
    [k \in 1..Len(ms) |->
        [start |-> ms[k].start, end |-> ms[k].end, score |-> ms[k].score, label |-> label]]
        \o <<>>

\* Lines 338-344: matches.extend(...) for each term, in the order of search_terms.
RECURSIVE CollectMatches(_, _, _, _, _, _)
CollectMatches(d, ts, r, o, t, acc) ==
    IF t > Len(ts) THEN acc
    ELSE Let(multi_match(d, ts[t], r, o).matches,
             LAMBDA ms : Let(acc \o Labelled(ms, t),
                             LAMBDA next : CollectMatches(d, ts, r, o, t + 1, next)))

Span(start, end, label) == [start |-> start, end |-> end, label |-> label]

SpansOverlap(a, b) == (a.start..(a.end - 1)) \cap (b.start..(b.end - 1)) # {}

\* doc.ents += (span,) raises ValueError.
Conflicts(es, span) == \E e \in es : SpansOverlap(e, span)

\* doc[i].ent_type_ is a non-empty string.
EntType(d, es, i) ==
    LET t == IF i < 0 THEN i + Len(d) ELSE i
    IN  \E e \in es : e.start <= t /\ t < e.end

NoSpan == [start |-> -1, end |-> -1, label |-> 0]

\* _adjust_ent_boundaries: st = [span, tried]; the result says whether a span was
\* registered (done), which one, the spans tried in order, and whether doc[i] raised.
RECURSIVE AdjustLoop(_, _, _, _, _, _)
AdjustLoop(d, es, label, i, k, st) ==
    IF i > k THEN [done |-> FALSE, ok |-> TRUE, span |-> NoSpan, tried |-> st.tried]
    ELSE
    LET span == st.span
        c1 == /\ EntType(d, es, span.start)
              /\ span.start < Len(d) - i
              /\ span.start + i < span.end
        span1 == IF c1 THEN Span(span.start + i, span.end, label) ELSE span
        tried1 == IF c1 THEN Append(st.tried, span1) ELSE st.tried
    IN  IF c1 /\ ~Conflicts(es, span1)
        THEN [done |-> TRUE, ok |-> TRUE, span |-> span1, tried |-> tried1]
        ELSE IF ~InDoc(d, span1.end - i)
        THEN [done |-> FALSE, ok |-> FALSE, span |-> NoSpan, tried |-> tried1]
        ELSE
        LET c2 == /\ EntType(d, es, span1.end - i)
                  /\ span1.end - i > 0
                  /\ span1.end - i > span1.start
            span2 == IF c2 THEN Span(span1.start, span1.end - i, label) ELSE span1
            tried2 == IF c2 THEN Append(tried1, span2) ELSE tried1
        IN  IF c2 /\ ~Conflicts(es, span2)
            THEN [done |-> TRUE, ok |-> TRUE, span |-> span2, tried |-> tried2]
            ELSE AdjustLoop(d, es, label, i + 1, k, [span |-> span2, tried |-> tried2])

_adjust_ent_boundaries(d, es, span, label, k) ==
    AdjustLoop(d, es, label, 1, k, [span |-> span, tried |-> <<>>])

RulerUnchanged == UNCHANGED <<doc, query, opts, rules, scanned, match_values, refined,
                              terms, overlap_adjust>>

\* __call__ up to line 344: multi_match for every term.
RulerCall ==
    /\ pc = "idle"
    /\ IF \E t \in 1..Len(terms) : multi_match(doc, terms[t], rules, opts).kind = "error"
       THEN /\ pc' = "raised"
            /\ result' = Raised("IndexError")
            /\ pending' = <<>>
       ELSE /\ pending' = CollectMatches(doc, terms, rules, opts, 1, <<>>)
            /\ pc' = IF pending' = <<>> THEN "done" ELSE "registering"
            /\ result' = result
    /\ UNCHANGED <<ents, log>>
    /\ RulerUnchanged

\* One pass of the loop of _iter_matches whose _update_entities registers the span
\* or, with overlap_adjust = 0, drops it.
UpdateEntities ==
    /\ pc = "registering"
    /\ LET m == Head(pending)
           span == Span(m.start, m.end, m.label)
       IN  /\ ~Conflicts(ents, span) \/ overlap_adjust = 0
           /\ ents' = IF Conflicts(ents, span) THEN ents ELSE ents \cup {span}
           /\ log' = Append(log,
                  [raw |-> m, before |-> ents, tried |-> <<>>,
                   outcome |-> IF Conflicts(ents, span) THEN "dropped" ELSE "registered",
                   span |-> IF Conflicts(ents, span) THEN NoSpan ELSE span])
    /\ pending' = Tail(pending)
    /\ pc' = IF pending' = <<>> THEN "done" ELSE "registering"
    /\ result' = result
    /\ RulerUnchanged

\* One pass of the loop of _iter_matches whose _update_entities meets a conflict
\* and calls _adjust_ent_boundaries.
AdjustEntBoundaries ==
    /\ pc = "registering"
    /\ LET m == Head(pending)
           span == Span(m.start, m.end, m.label)
           a == _adjust_ent_boundaries(doc, ents, span, m.label, overlap_adjust)
       IN  /\ Conflicts(ents, span)
           /\ overlap_adjust > 0
           /\ ents' = IF a.done THEN ents \cup {a.span} ELSE ents
           /\ log' = Append(log,
                  [raw |-> m, before |-> ents, tried |-> a.tried,
                   outcome |-> IF ~a.ok THEN "raised"
                               ELSE IF a.done THEN "adjusted" ELSE "dropped",
                   span |-> a.span])
           /\ pc' = IF ~a.ok THEN "raised"
                    ELSE IF Tail(pending) = <<>> THEN "done" ELSE "registering"
           /\ result' = IF a.ok THEN result ELSE Raised("IndexError")
    /\ pending' = Tail(pending)
    /\ RulerUnchanged

NextRuler == RulerCall \/ UpdateEntities \/ AdjustEntBoundaries

SpecRuler == InitRuler /\ [][NextRuler]_vars

(***************************************************************************)
(* Properties of one best_match / multi_match call (specification Spec).   *)
(***************************************************************************)
Called == pc \in {"best_match", "multi_match"}

ReturnedMatches == IF result.kind \in {"match", "list"} THEN result.matches ELSE <<>>

\* C1: when no scanned window reaches min_ratio, best_match returns None and
\* multi_match returns an empty list; neither call raises.
C1_NoMatchIsAbsence ==
    (Called /\ Keys(match_values) = {}) =>
        /\ pc = "best_match" => result.kind = "None"
        /\ pc = "multi_match" => (result.kind = "list" /\ result.matches = <<>>)

\* C2: for a query whose tokens occur verbatim as a contiguous run of the document,
\* best_match with a similarity that is 100 on equal texts and min_ratio <= 100
\* returns a match whose span text is the query text, with score 100, whatever the
\* ignore rules.
C2_VerbatimFound ==
    (pc = "best_match" /\ opts.min_ratio <= 100 /\ OccursVerbatim(doc, query)) =>
        /\ result.kind = "match"
        /\ \A i \in 1..Len(result.matches) :
               /\ OccursAt(doc, query, result.matches[i].start)
               /\ result.matches[i].end = result.matches[i].start + Len(query)
               /\ result.matches[i].score = 100

\* C3: the list multi_match returns has no two matches sharing a token index, its
\* scores are non-increasing, and every candidate left out shares a token with a
\* returned match that precedes it in score order.
C3_OverlapFreeSorted ==
    (pc = "multi_match" /\ result.kind = "list") =>
        LET ms == result.matches
            cands == Candidates(RefinedPositions(doc, query, rules, opts), opts.min_ratio)
        IN  /\ \A i, j \in 1..Len(ms) :
                   i < j => /\ (ms[i].start..(ms[i].end - 1)) \cap (ms[j].start..(ms[j].end - 1)) = {}
                            /\ ms[i].score >= ms[j].score
            /\ \A c \in 1..Len(cands) :
                   (\A i \in 1..Len(ms) : ms[i] # cands[c]) =>
                       \E i \in 1..Len(ms) :
                           /\ ms[i].score >= cands[c].score
                           /\ \E t \in cands[c].start..(cands[c].end - 1) :
                                  ms[i].start <= t /\ t < ms[i].end

\* Reached: multi_match refined two overlapping windows and returned only the better.
C3_Witness ==
    /\ pc = "multi_match"
    /\ result.kind = "list"
    /\ Len(result.matches) = 1
    /\ Len(Candidates(RefinedPositions(doc, query, rules, opts), opts.min_ratio)) = 2

\* C4: every match multi_match returns has start < end and a score, re-computed on
\* the trimmed window, of at least min_ratio.
C4_ReturnedMatchesValid ==
    (pc = "multi_match" /\ result.kind = "list") =>
        \A i \in 1..Len(result.matches) :
            LET m == result.matches[i]
            IN  /\ m.start < m.end
                /\ m.score >= opts.min_ratio
                /\ m.score = Score(doc, query, opts, m.start, m.end)

\* C5: every match returned by best_match or multi_match lies inside the document.
C5_InsideDocument ==
    Called =>
        \A i \in 1..Len(ReturnedMatches) :
            0 <= ReturnedMatches[i].start /\ ReturnedMatches[i].end <= Len(doc)

\* C8: the scan scores the windows at 0, step, 2*step, ... and every scored window
\* [m, m + len(query)) ends at or before the end of the document.
C8_WindowsInsideDocument ==
    Called =>
        \A k \in 1..Len(scanned) :
            /\ scanned[k] = (k - 1) * opts.step
            /\ scanned[k] + Len(query) <= Len(doc)

(***************************************************************************)
(* Properties of _enforce_rules (SpecTrim) and of the boundary search of   *)
(* _adjust_left_right_positions (SpecRefine).                              *)
(***************************************************************************)
LeftIgnorable(t) ==
    \E key \in (rules.ignores \cup rules.left_ignores) \cap {"space", "punct", "stop"} :
        Rule(key, t)

RightIgnorable(t) ==
    \E key \in (rules.ignores \cup rules.right_ignores) \cap {"space", "punct", "stop"} :
        Rule(key, t)

\* C9: trimming a window [l, r) with 0 <= l < r <= len(doc) returns [l', r') with
\* l <= l' < r' <= r; the tokens removed on the left are left-ignorable and those
\* removed on the right are right-ignorable; the left trim stops only at a token
\* that is not left-ignorable or at l' = r - 1, the right trim only at a token that
\* is not right-ignorable or at r' = l' + 1; an edge with no ignore predicate is
\* returned unchanged.
C9_TrimStaysInsideWindow ==
    (pc = "enforced" /\ 0 <= refined.bp_l /\ refined.bp_l < refined.bp_r
        /\ refined.bp_r <= Len(doc)) =>
        /\ result.kind = "tuple"
        /\ LET l == refined.bp_l
               r == refined.bp_r
               l2 == result.matches[1].start
               r2 == result.matches[1].end
           IN  /\ l <= l2 /\ l2 < r2 /\ r2 <= r
               /\ \A t \in l..(l2 - 1) : LeftIgnorable(doc[t + 1])
               /\ \A t \in r2..(r - 1) : RightIgnorable(doc[t + 1])
               /\ ~LeftIgnorable(doc[l2 + 1]) \/ l2 = r - 1
               /\ ~RightIgnorable(doc[r2]) \/ r2 = l2 + 1
               /\ (\A t \in 1..Len(doc) : ~LeftIgnorable(doc[t])) => l2 = l
               /\ (\A t \in 1..Len(doc) : ~RightIgnorable(doc[t])) => r2 = r

\* Reached: a window of ignorable tokens only was trimmed from both sides down to
\* one token.
C9_Witness ==
    /\ pc = "enforced"
    /\ result.kind = "tuple"
    /\ refined.bp_l = 0
    /\ refined.bp_r = Len(doc)
    /\ Len(doc) >= 3
    /\ result.matches[1].start > refined.bp_l
    /\ result.matches[1].end = result.matches[1].start + 1
    /\ \A t \in 1..Len(doc) : LeftIgnorable(doc[t]) /\ RightIgnorable(doc[t])

\* The candidates of radius f: the scores line 206-225 computes.
LeftMinus(f) == Score(doc, query, opts, refined.pos - f, refined.pos + Len(query))
LeftPlus(f) == Score(doc, query, opts, refined.pos + f, refined.pos + Len(query))
RightMinus(f) == Score(doc, query, opts, refined.pos, refined.pos + Len(query) - f)
RightPlus(f) == Score(doc, query, opts, refined.pos, refined.pos + Len(query) + f)

Radii == 0..(refined.flex - 1)
ScanScore == match_values[refined.pos \div opts.step]

\* C10: each edge is searched on its own from the scan score: the left boundary is
\* pos or a candidate pos - f / pos + f (right edge held at pos + len(query)) that
\* scores strictly more than the scan score, no candidate of its edge scores more
\* than it and none of a smaller radius (nor pos - f when it is pos + f) scores as
\* much; likewise the right boundary; when no candidate beats the scan score both
\* boundaries stay at pos and pos + len(query).
C10_EdgesSearchedIndependently ==
    pc = "adjusted" =>
        LET pos == refined.pos
            p_r == refined.pos + Len(query)
            fl == IF refined.bp_l >= pos THEN refined.bp_l - pos ELSE pos - refined.bp_l
            fr == IF refined.bp_r >= p_r THEN refined.bp_r - p_r ELSE p_r - refined.bp_r
        IN  /\ refined.bp_l = pos \/ (fl \in Radii /\ refined.bmv_l > ScanScore)
            /\ refined.bmv_l = Score(doc, query, opts, refined.bp_l, p_r)
            /\ \A f \in Radii : LeftMinus(f) <= refined.bmv_l /\ LeftPlus(f) <= refined.bmv_l
            /\ \A f \in Radii : f < fl => (LeftMinus(f) < refined.bmv_l /\ LeftPlus(f) < refined.bmv_l)
            /\ (refined.bp_l = pos + fl /\ fl > 0) => LeftMinus(fl) < refined.bmv_l
            /\ (\A f \in Radii : LeftMinus(f) <= ScanScore /\ LeftPlus(f) <= ScanScore)
                   => refined.bp_l = pos
            /\ refined.bp_r = p_r \/ (fr \in Radii /\ refined.bmv_r > ScanScore)
            /\ refined.bmv_r = Score(doc, query, opts, pos, refined.bp_r)
            /\ \A f \in Radii : RightMinus(f) <= refined.bmv_r /\ RightPlus(f) <= refined.bmv_r
            /\ \A f \in Radii : f < fr => (RightMinus(f) < refined.bmv_r /\ RightPlus(f) < refined.bmv_r)
            /\ (refined.bp_r = p_r + fr /\ fr > 0) => RightMinus(fr) < refined.bmv_r
            /\ (\A f \in Radii : RightMinus(f) <= ScanScore /\ RightPlus(f) <= ScanScore)
                   => refined.bp_r = p_r

\* Reached: the radius-1 search moved the left boundary to a better candidate and
\* left the right boundary alone although a radius-1 candidate tied with the scan score.
C10_Witness ==
    /\ pc = "adjusted"
    /\ refined.flex = 2
    /\ refined.bp_l # refined.pos
    /\ refined.bmv_l > ScanScore
    /\ refined.bp_r = refined.pos + Len(query)
    /\ (RightMinus(1) = ScanScore \/ RightPlus(1) = ScanScore)

(***************************************************************************)
(* Properties of a labeling pass (SpecRuler).                              *)
(***************************************************************************)
Registered(m) == Span(m.start, m.end, m.label) \in ents

\* Some entity carries the label of m and lies within m.
RegisteredInPart(m) ==
    \E e \in ents : e.label = m.label /\ m.start <= e.start /\ e.end <= m.end

Outscored(m) ==
    \E j \in 1..Len(log) :
        /\ log[j].raw.label # m.label
        /\ SpansOverlap(log[j].raw, m)
        /\ log[j].raw.score >= m.score

\* C6: with overlap_adjust = 0, of two overlapping raw spans of different queries
\* the lower-scoring is dropped entirely and the higher-scoring (one that no other
\* raw span outscores) is registered with its boundaries unchanged, and no two
\* entities of the document overlap.
C6_LowerScoringDropped ==
    (pc = "done" /\ overlap_adjust = 0) =>
        /\ \A i, j \in 1..Len(log) :
               LET a == log[i].raw
                   b == log[j].raw
               IN  (a.label # b.label /\ SpansOverlap(a, b) /\ a.score > b.score
                        /\ ~Outscored(a)) =>
                       (~RegisteredInPart(b) /\ Registered(a))
        /\ \A e, f \in ents : e # f => ~SpansOverlap(e, f)

\* The attempts of the adjustment, each measured from the original span: for
\* i = 1..k the start-shrunk span, then the end-shrunk span, each under its guard.
StartShrunk(en, i) == Span(en.raw.start + i, en.raw.end, en.raw.label)
EndShrunk(en, i) == Span(en.raw.start, en.raw.end - i, en.raw.label)

StartWins(en, i) ==
    /\ EntType(doc, en.before, en.raw.start)
    /\ en.raw.start + i < en.raw.end
    /\ ~Conflicts(en.before, StartShrunk(en, i))

EndWins(en, i) ==
    /\ EntType(doc, en.before, en.raw.end - 1)
    /\ en.raw.start < en.raw.end - i
    /\ ~Conflicts(en.before, EndShrunk(en, i))

\* C7: a span whose registration conflicts, with a budget k >= 1, is registered as
\* the first of [s+1, e), [s, e-1), [s+2, e), [s, e-2), ... (up to k, each measured
\* from the original span, each under its guard) that the entity set accepts; if
\* none is accepted the span is dropped and the entity set is left unchanged.
C7_ShrunkOnOneSide ==
    \A n \in 1..Len(log) :
        LET en == log[n]
            k == overlap_adjust
            after == IF n < Len(log) THEN log[n + 1].before ELSE ents
        IN  (k >= 1 /\ Conflicts(en.before, Span(en.raw.start, en.raw.end, en.raw.label))) =>
                /\ en.outcome \in {"adjusted", "dropped"}
                /\ \A i \in 1..k :
                       (StartWins(en, i) /\ \A h \in 1..(i - 1) : ~StartWins(en, h) /\ ~EndWins(en, h))
                           => (en.outcome = "adjusted" /\ en.span = StartShrunk(en, i))
                /\ \A i \in 1..k :
                       (EndWins(en, i) /\ ~StartWins(en, i)
                            /\ \A h \in 1..(i - 1) : ~StartWins(en, h) /\ ~EndWins(en, h))
                           => (en.outcome = "adjusted" /\ en.span = EndShrunk(en, i))
                /\ (\A i \in 1..k : ~StartWins(en, i) /\ ~EndWins(en, i))
                       => (en.outcome = "dropped" /\ after = en.before)
                /\ en.outcome = "adjusted" =>
                       /\ after = en.before \cup {en.span}
                       /\ \E i \in 1..k : en.span \in {StartShrunk(en, i), EndShrunk(en, i)}

====
